---- MODULE Spec2Model ----
(****************************************************************************)
(* Exam-score predictor (src/app.py): a Flask application over one SQLite   *)
(* table, exam_entries.  POST /api/entries validates and inserts a row,     *)
(* GET /api/entries reads the table ordered by (created_at, id), and        *)
(* POST /api/predict validates a predictor tuple and answers with a         *)
(* placeholder (no rows), the mean score (1 or 2 rows) or a least-squares   *)
(* fit (3 rows or more).                                                    *)
(*                                                                          *)
(* Numbers.  JSON numbers of the requests are integers in Spec and SpecFit, *)
(* which Python floats hold exactly; NaN is kept as a value of its own      *)
(* because the handlers compare it.  The least-squares fit is computed in   *)
(* exact rational arithmetic (the minimum-norm solution numpy.linalg.lstsq  *)
(* approximates), and round() is round-half-to-even on the exact value.     *)
(* SpecFloat stores scores with a fraction as IEEE 754 doubles and computes *)
(* np.mean in double arithmetic, which decides whether r2 stays None.       *)
(****************************************************************************)
EXTENDS Integers, Sequences, FiniteSets, TLC

VARIABLES
    entries,   \* table exam_entries, in rowid order
    clock,     \* the wall clock, in half hours of UTC after 05:30
    req,       \* the request being served last
    resp       \* its response

vars == <<entries, clock, req, resp>>

----------------------------------------------------------------------------
(* Bounds of the model. *)

MaxRows == 3
MaxClock == 1
MaxFitRows == 4

----------------------------------------------------------------------------
(* JSON values of a request body and Python floats. *)

Missing == [t |-> "missing", v |-> 0]   \* key absent: data.get() is None
Text    == [t |-> "text",    v |-> 0]   \* a string float() rejects, "abc"
NanStr  == [t |-> "nanstr",  v |-> 0]   \* the string "nan", which float() parses
Num(n)  == [t |-> "num",     v |-> n]   \* a JSON number

F(n) == [k |-> "float", v |-> n]
NaN  == [k |-> "nan",   v |-> 0]
None == [k |-> "None",  v |-> 0]         \* parse_float's None

\* float(value), None on TypeError or ValueError
parse_float(value) ==
    CASE value.t = "num"    -> F(value.v)
      [] value.t = "nanstr" -> NaN
      [] OTHER              -> None

\* float comparisons: every comparison with NaN is False
FLe(a, b) == a.k = "float" /\ b.k = "float" /\ a.v <= b.v
FLt(a, b) == a.k = "float" /\ b.k = "float" /\ a.v < b.v

----------------------------------------------------------------------------
(* Validation: the errors mapping and the parsed floats. *)

NoErrors == [f \in {} |-> ""]

avg_glucose_error(x) ==
    IF x = None THEN "Average glucose must be a number."
    ELSE IF FLe(x, F(0)) THEN "Average glucose must be > 0."
    ELSE ""

glucose_sd_error(x) ==
    IF x = None THEN "Glucose SD must be a number."
    ELSE IF FLt(x, F(0)) THEN "Glucose SD must be >= 0."
    ELSE ""

difficulty_error(x) ==
    IF x = None THEN "Difficulty must be a number."
    ELSE IF ~(FLe(F(1), x) /\ FLe(x, F(10))) THEN "Difficulty must be between 1 and 10."
    ELSE ""

score_error_unbounded(x) ==
    IF x = None THEN "Score must be a number."
    ELSE IF ~FLe(F(0), x) THEN "Score must be between 0 and 100."
    ELSE ""

score_error(x) ==
    IF x = None THEN "Score must be a number."
    ELSE IF ~(FLe(F(0), x) /\ FLe(x, F(100))) THEN "Score must be between 0 and 100."
    ELSE ""

\* the mapping field -> message over the fields whose message is not empty
ErrorsOf(msgs) ==
    LET bad == {f \in DOMAIN msgs : msgs[f] # ""}
    IN  [f \in bad |-> msgs[f]]

validate_entry(data) ==
    LET p == [f \in DOMAIN data |-> parse_float(data[f])]
        errors == ErrorsOf([avg_glucose |-> avg_glucose_error(p.avg_glucose),
                            glucose_sd  |-> glucose_sd_error(p.glucose_sd),
                            difficulty  |-> difficulty_error(p.difficulty),
                            score       |-> score_error(p.score)])
    IN  [errors |-> errors,
         parsed |-> [f \in (DOMAIN data) \ (DOMAIN errors) |-> p[f]]]

validate_predict(data) ==
    LET p == [f \in DOMAIN data |-> parse_float(data[f])]
        errors == ErrorsOf([avg_glucose |-> avg_glucose_error(p.avg_glucose),
                            glucose_sd  |-> glucose_sd_error(p.glucose_sd),
                            difficulty  |-> difficulty_error(p.difficulty)])
    IN  [errors |-> errors,
         parsed |-> [f \in (DOMAIN data) \ (DOMAIN errors) |-> p[f]]]

----------------------------------------------------------------------------
(* The clock and the table. *)

Digits2(n) == <<48 + (n \div 10), 48 + (n % 10)>>

\* utcoffset of the server's zone, in hours: daylight time ends at 06:00 UTC
utcoffset(t) == IF 330 + 30 * t < 360 THEN -4 ELSE -5

\* datetime.now(timezone.utc).astimezone().isoformat(), as character codes of
\* "HH:MM-0X:00" (the date and the seconds are the same all along)
now_iso(t) ==
    LET off   == utcoffset(t)
        local == 330 + 30 * t + 60 * off
    IN  Digits2(local \div 60) \o <<58>> \o Digits2(local % 60)
        \o <<IF off < 0 THEN 45 ELSE 43>> \o Digits2(IF off < 0 THEN -off ELSE off)
        \o <<58, 48, 48>>

\* text comparison of the BINARY collation (memcmp, then length)
RECURSIVE TextLess(_, _)
TextLess(a, b) ==
    IF b = <<>> THEN FALSE
    ELSE IF a = <<>> THEN TRUE
    ELSE IF Head(a) # Head(b) THEN Head(a) < Head(b)
    ELSE TextLess(Tail(a), Tail(b))

\* ORDER BY created_at ASC, id ASC
RowBefore(a, b) ==
    \/ TextLess(a.created_at, b.created_at)
    \/ a.created_at = b.created_at /\ a.id < b.id

RECURSIVE InsertSorted(_, _)
InsertSorted(row, sorted) ==
    IF sorted = <<>> THEN <<row>>
    ELSE IF RowBefore(row, Head(sorted)) THEN <<row>> \o sorted
    ELSE <<Head(sorted)>> \o InsertSorted(row, Tail(sorted))

RECURSIVE OrderBy(_)
OrderBy(rows) ==
    IF rows = <<>> THEN <<>> ELSE InsertSorted(Head(rows), OrderBy(Tail(rows)))

\* SELECT * FROM exam_entries ORDER BY created_at ASC, id ASC
fetch_entries(table) == OrderBy(table)

\* binding a float to a REAL NOT NULL column: SQLite stores NaN as NULL
NotNull(x) == x.k = "float"

\* AUTOINCREMENT: one more than the largest rowid ever used (no row is deleted)
lastrowid(table) == Len(table) + 1

insert_replace(table, row) ==
    IF table = <<>> THEN <<row>> ELSE SubSeq(table, 1, Len(table) - 1) \o <<row>>

insert_row(table, row) == Append(table, row)

----------------------------------------------------------------------------
(* Exact rationals: the values the floats of the fit stand for. *)

Abs(n) == IF n < 0 THEN -n ELSE n

RECURSIVE GCD(_, _)
GCD(a, b) == IF b = 0 THEN a ELSE GCD(b, a % b)

\* n/d in lowest terms with a positive denominator (d # 0)
Rat(n, d) ==
    LET g == GCD(Abs(n), Abs(d))
        s == IF d < 0 THEN -1 ELSE 1
    IN  [n |-> s * (n \div g), d |-> s * (d \div g)]

RInt(n)    == [n |-> n, d |-> 1]
RAdd(a, b) == Rat(a.n * b.d + b.n * a.d, a.d * b.d)
RSub(a, b) == Rat(a.n * b.d - b.n * a.d, a.d * b.d)
RMul(a, b) == Rat(a.n * b.n, a.d * b.d)
RDiv(a, b) == Rat(a.n * b.d, a.d * b.n)
RSq(a)     == RMul(a, a)

RECURSIVE RSum(_)
RSum(xs) == IF xs = <<>> THEN RInt(0) ELSE RAdd(Head(xs), RSum(Tail(xs)))

RECURSIVE Pow10(_)
Pow10(k) == IF k = 0 THEN 1 ELSE 10 * Pow10(k - 1)

\* round(x, ndigits) in units of 10^-ndigits; a tie goes to the even neighbour
round(x, ndigits) ==
    LET num == x.n * Pow10(ndigits)
        lo  == num \div x.d
        rem == 2 * (num - lo * x.d)
    IN  IF rem < x.d THEN lo
        ELSE IF rem > x.d THEN lo + 1
        ELSE IF lo % 2 = 0 THEN lo ELSE lo + 1

\* np.sum(xs)
total(xs) == RSum(xs)

\* float(np.mean(xs)), xs not empty
mean(xs) == RDiv(RSum(xs), RInt(Len(xs)))

----------------------------------------------------------------------------
(* numpy.linalg.lstsq(x, y, rcond=None): the minimum-norm least-squares      *)
(* solution x^+ y.  With m = x^T x, a_1..a_4 the coefficients of m's         *)
(* characteristic polynomial and b_0 = I, b_k = m b_(k-1) + a_k I            *)
(* (Faddeev-LeVerrier), the rank r of x is the largest k with a_k # 0 and    *)
(* x^+ = -(1/a_r) b_(r-1) x^T.                                               *)

Identity == <<<<1, 0, 0, 0>>, <<0, 1, 0, 0>>, <<0, 0, 1, 0>>, <<0, 0, 0, 1>>>>

Zero == <<<<0, 0, 0, 0>>, <<0, 0, 0, 0>>, <<0, 0, 0, 0>>, <<0, 0, 0, 0>>>>

Dot(u, v) == u[1] * v[1] + u[2] * v[2] + u[3] * v[3] + u[4] * v[4]

Scale(u, c) == <<c * u[1], c * u[2], c * u[3], c * u[4]>>

VecAdd(u, v) == <<u[1] + v[1], u[2] + v[2], u[3] + v[3], u[4] + v[4]>>

MatAdd(a, b) ==
    <<VecAdd(a[1], b[1]), VecAdd(a[2], b[2]), VecAdd(a[3], b[3]), VecAdd(a[4], b[4])>>

\* u u^T
Outer(u) == <<Scale(u, u[1]), Scale(u, u[2]), Scale(u, u[3]), Scale(u, u[4])>>

\* x^T x and x^T y, row by row of x
RECURSIVE Gram(_)
Gram(x) == IF x = <<>> THEN Zero ELSE MatAdd(Outer(Head(x)), Gram(Tail(x)))

RECURSIVE Moment(_, _)
Moment(x, y) ==
    IF x = <<>> THEN <<0, 0, 0, 0>>
    ELSE VecAdd(Scale(Head(x), Head(y)), Moment(Tail(x), Tail(y)))

Transpose(b) ==
    <<<<b[1][1], b[2][1], b[3][1], b[4][1]>>, <<b[1][2], b[2][2], b[3][2], b[4][2]>>,
      <<b[1][3], b[2][3], b[3][3], b[4][3]>>, <<b[1][4], b[2][4], b[3][4], b[4][4]>>>>

MatVec(a, v) == <<Dot(a[1], v), Dot(a[2], v), Dot(a[3], v), Dot(a[4], v)>>

MatMul(a, b) ==
    LET t == Transpose(b)
    IN  <<MatVec(t, a[1]), MatVec(t, a[2]), MatVec(t, a[3]), MatVec(t, a[4])>>

Trace(a) == a[1][1] + a[2][2] + a[3][3] + a[4][4]

AddDiag(a, c) == MatAdd(a, <<Scale(Identity[1], c), Scale(Identity[2], c),
                            Scale(Identity[3], c), Scale(Identity[4], c)>>)

\* <<b_0, .., b_3>> and <<a_1, .., a_4>> of m, step k given m b_(k-1)
RECURSIVE FaddeevStep(_, _, _, _, _)
FaddeevNext(m, k, bs, as, mb, ak) ==
    IF k = 4 THEN [bs |-> bs, as |-> Append(as, ak)]
    ELSE FaddeevStep(m, k + 1, Append(bs, AddDiag(mb, ak)), Append(as, ak),
                     MatMul(m, AddDiag(mb, ak)))

FaddeevStep(m, k, bs, as, mb) == FaddeevNext(m, k, bs, as, mb, (-Trace(mb)) \div k)

Faddeev(m) == FaddeevStep(m, 1, <<Identity>>, <<>>, m)

RankOf(as) ==
    IF as[4] # 0 THEN 4 ELSE IF as[3] # 0 THEN 3 ELSE IF as[2] # 0 THEN 2
    ELSE IF as[1] # 0 THEN 1 ELSE 0

\* -v / a, component by component
Quotients(v, a) == <<Rat(-v[1], a), Rat(-v[2], a), Rat(-v[3], a), Rat(-v[4], a)>>

SolveRank(fl, b, r) == [coeffs |-> Quotients(MatVec(fl.bs[r], b), fl.as[r]), rank |-> r]

Solve(fl, b) == SolveRank(fl, b, RankOf(fl.as))

\* the inverse of x^T x applied to x^T y, zero when x^T x is singular
SolveFullRank(fl, b) ==
    IF fl.as[4] = 0 THEN [coeffs |-> <<RInt(0), RInt(0), RInt(0), RInt(0)>>, rank |-> 0]
    ELSE SolveRank(fl, b, 4)

normal_equations(x, y) == SolveFullRank(Faddeev(Gram(x)), Moment(x, y))

lstsq(x, y) == Solve(Faddeev(Gram(x)), Moment(x, y))

----------------------------------------------------------------------------
(* POST /api/predict after validation. *)

MinRegressionRowsPlusOne == 3 + 1

MinRegressionRows == 3

ModelType == "multivariate_linear_regression"

NoData == "No data yet. Returning 0 as a placeholder prediction until entries exist."

NotEnough == "Not enough data for regression (need at least 3 rows). Returning mean score of existing entries."

\* JSON values of the response: a float is [k, v] with v in the unit the
\* rounding leaves (hundredths, ten-thousandths), null has k = "null"
Null == [k |-> "null", v |-> 0]

RECURSIVE Scores(_)
Scores(rows) ==
    IF rows = <<>> THEN <<>> ELSE <<RInt(Head(rows).score)>> \o Scores(Tail(rows))

\* len(entries) as the response reports it
count_fitted_rows(rows) == IF Len(rows) < MinRegressionRows THEN 0 ELSE Len(rows)

n_training_rows(rows) == Len(rows)

initial_model(rows) ==
    [type |-> ModelType,
     coefficients |-> [intercept |-> RInt(0), avg_glucose |-> RInt(0),
                       glucose_sd |-> RInt(0), difficulty |-> RInt(0)],
     n_training_rows |-> n_training_rows(rows),
     r2 |-> Null]

\* the branch len(entries) < 3
fallback_silent(rows) ==
    IF rows # <<>>
    THEN [predicted |-> mean(Scores(rows)), notes |-> <<NotEnough>>]
    ELSE [predicted |-> RInt(0), notes |-> <<>>]

fallback_total(rows) ==
    IF rows # <<>>
    THEN [predicted |-> total(Scores(rows)), notes |-> <<NotEnough>>]
    ELSE [predicted |-> RInt(0), notes |-> <<NoData>>]

fallback(rows) ==
    IF rows # <<>>
    THEN [predicted |-> mean(Scores(rows)), notes |-> <<NotEnough>>]
    ELSE [predicted |-> RInt(0), notes |-> <<NoData>>]

\* the design matrix and the target
RECURSIVE DesignMatrix(_)
DesignMatrix(rows) ==
    IF rows = <<>> THEN <<>>
    ELSE <<<<1, Head(rows).avg_glucose, Head(rows).glucose_sd, Head(rows).difficulty>>>>
         \o DesignMatrix(Tail(rows))

RECURSIVE Target(_)
Target(rows) == IF rows = <<>> THEN <<>> ELSE <<Head(rows).score>> \o Target(Tail(rows))

\* intercept + b_avg * avg_glucose + b_sd * glucose_sd + b_diff * difficulty
Evaluate(c, q) ==
    RAdd(RAdd(RAdd(c[1], RMul(c[2], RInt(q[2]))), RMul(c[3], RInt(q[3]))),
         RMul(c[4], RInt(q[4])))

RECURSIVE Rationals(_)
Rationals(y) == IF y = <<>> THEN <<>> ELSE <<RInt(Head(y))>> \o Rationals(Tail(y))

\* np.sum((y - x.dot(coeffs)) ** 2)
RECURSIVE ss_res(_, _, _)
ss_res(x, y, c) ==
    IF y = <<>> THEN RInt(0)
    ELSE RAdd(RSq(RSub(RInt(Head(y)), Evaluate(c, Head(x)))),
              ss_res(Tail(x), Tail(y), c))

RECURSIVE SumSquaresAround(_, _)
SumSquaresAround(y, m) ==
    IF y = <<>> THEN RInt(0)
    ELSE RAdd(RSq(RSub(RInt(Head(y)), m)), SumSquaresAround(Tail(y), m))

\* np.sum((y - np.mean(y)) ** 2)
ss_tot(y) == SumSquaresAround(y, mean(Rationals(y)))

\* model["r2"]: None unless ss_tot > 0, else round(1 - ss_res / ss_tot, 4)
r2_of(res, tot) ==
    IF tot.n > 0 THEN [k |-> "float", v |-> round(RSub(RInt(1), RDiv(res, tot)), 4)]
    ELSE Null

IsNaN(x) == x.k = "nan"

\* float * float and float + float with NaN: the prediction at the parsed input
HasNaN(parsed) ==
    IsNaN(parsed.avg_glucose) \/ IsNaN(parsed.glucose_sd) \/ IsNaN(parsed.difficulty)

Query(parsed) == <<1, parsed.avg_glucose.v, parsed.glucose_sd.v, parsed.difficulty.v>>

predicted_at(c, parsed) ==
    IF HasNaN(parsed) THEN NaN
    ELSE [k |-> "float", v |-> round(Evaluate(c, Query(parsed)), 2)]

fallback_response(model, fb) ==
    [predicted_score |-> [k |-> "float", v |-> round(fb.predicted, 2)],
     model |-> model,
     notes |-> fb.notes]

fitted_response(model, parsed, x, y, c) ==
    [predicted_score |-> predicted_at(c, parsed),
     model |-> [model EXCEPT
         !.coefficients = [intercept |-> c[1], avg_glucose |-> c[2],
                           glucose_sd |-> c[3], difficulty |-> c[4]],
         !.r2 = r2_of(ss_res(x, y, c), ss_tot(y))],
     notes |-> <<>>]

fit(model, parsed, x, y) == fitted_response(model, parsed, x, y, lstsq(x, y).coeffs)

\* the body of predict() from fetch_entries on; parsed holds the three floats
predictor(parsed, rows) ==
    IF Len(rows) < MinRegressionRows
    THEN fallback_response(initial_model(rows), fallback(rows))
    ELSE fit(initial_model(rows), parsed, DesignMatrix(rows), Target(rows))

----------------------------------------------------------------------------
(* The handlers.  A response is [op, status, errors, calls, rows,            *)
(* predicted_score, model, notes]; calls names the steps that ran.           *)

Response(op, status, errors, calls, rows) ==
    [op |-> op, status |-> status, errors |-> errors, calls |-> calls,
     rows |-> rows, predicted_score |-> Null, model |-> Null, notes |-> <<>>]

WithBody(response, out) ==
    [response EXCEPT !.predicted_score = out.predicted_score,
                     !.model = out.model,
                     !.notes = out.notes]

NoRequest  == [op |-> "none", data |-> [f \in {} |-> Missing]]
NoResponse == Response("none", 0, NoErrors, {}, <<>>)

\* GET /api/entries
get_entries(table) ==
    Response("get_entries", 200, NoErrors, {"fetch_entries"}, fetch_entries(table))

\* POST /api/entries: the table afterwards and the response
add_entry(data, table, t) ==
    LET v == validate_entry(data)
    IN  IF DOMAIN v.errors # {}
        THEN [table |-> table,
              resp  |-> Response("add_entry", 400, v.errors, {"validate_entry"}, <<>>)]
        ELSE IF \E f \in DOMAIN v.parsed : ~NotNull(v.parsed[f])
        THEN \* sqlite3.IntegrityError: NOT NULL constraint failed
             [table |-> table,
              resp  |-> Response("add_entry", 500, NoErrors,
                                 {"validate_entry", "insert"}, <<>>)]
        ELSE LET row == [id          |-> lastrowid(table),
                         created_at  |-> now_iso(t),
                         avg_glucose |-> v.parsed.avg_glucose.v,
                         glucose_sd  |-> v.parsed.glucose_sd.v,
                         difficulty  |-> v.parsed.difficulty.v,
                         score       |-> v.parsed.score.v]
             IN  [table |-> insert_row(table, row),
                  resp  |-> Response("add_entry", 201, NoErrors,
                                     {"validate_entry", "insert"}, <<row>>)]

\* POST /api/predict
predict(data, table) ==
    LET v == validate_predict(data)
    IN  IF DOMAIN v.errors # {}
        THEN Response("predict", 400, v.errors, {"validate_predict"}, <<>>)
        ELSE WithBody(Response("predict", 200, NoErrors,
                               {"validate_predict", "fetch_entries", "predictor"}, <<>>),
                      predictor(v.parsed, fetch_entries(table)))

----------------------------------------------------------------------------
(* The requests of the model. *)

EntryRequests ==
    [avg_glucose : {NanStr, Num(0), Num(2)},
     glucose_sd  : {Num(-1), Num(0)},
     difficulty  : {Num(11), Num(1)},
     score       : {Num(101), Num(0), Num(1)}]

PredictRequests ==
    [avg_glucose : {Missing, NanStr, Num(1), Num(2)},
     glucose_sd  : {Text, Num(0)},
     difficulty  : {Num(0), Num(1)}]

----------------------------------------------------------------------------
(* The service: requests are served one at a time, the clock advances. *)

Init ==
    /\ entries = <<>>
    /\ clock = 0
    /\ req = NoRequest
    /\ resp = NoResponse

AddEntry ==
    /\ Len(entries) < MaxRows
    /\ \E data \in EntryRequests :
          LET out == add_entry(data, entries, clock)
          IN  /\ entries' = out.table
              /\ req' = [op |-> "add_entry", data |-> data]
              /\ resp' = out.resp
    /\ UNCHANGED clock

GetEntries ==
    /\ req' = [op |-> "get_entries", data |-> NoRequest.data]
    /\ resp' = get_entries(entries)
    /\ UNCHANGED <<entries, clock>>

PredictWith(data) ==
    /\ req' = [op |-> "predict", data |-> data]
    /\ resp' = predict(data, entries)
    /\ UNCHANGED <<entries, clock>>

Predict == \E data \in PredictRequests : PredictWith(data)

Tick ==
    /\ clock < MaxClock
    /\ clock' = clock + 1
    /\ UNCHANGED <<entries, req, resp>>

Next == AddEntry \/ GetEntries \/ Predict \/ Tick

Spec == Init /\ [][Next]_vars

----------------------------------------------------------------------------
(* The predictor alone: the table holds some history recorded earlier (its   *)
(* rows in the order they were recorded, one timestamp), and one predict     *)
(* request with a valid body is served against it.                           *)

\* the observations of the histories, numbered from 0: the predictors
\* (avg_glucose in {1, 2}, glucose_sd in {0, 1}, difficulty in {1, 2}) are
\* the binary digits of 1 .. FitPredictors, the score is 0 or 1
FitPredictors == 5

FitRowCount == FitPredictors * 2

FitRow(k, id) ==
    [id          |-> id,
     created_at  |-> now_iso(0),
     avg_glucose |-> 1 + (((k % FitPredictors) + 1) % 2),
     glucose_sd  |-> (((k % FitPredictors) + 1) \div 2) % 2,
     difficulty  |-> 1 + ((((k % FitPredictors) + 1) \div 4) % 2),
     score       |-> k \div FitPredictors]

\* the histories of n rows from observation lo on, the first with rowid id,
\* one for each multiset of observations
RECURSIVE Histories(_, _, _)
Histories(n, lo, id) ==
    IF n = 0 THEN {<<>>}
    ELSE UNION {{<<FitRow(k, id)>> \o h : h \in Histories(n - 1, k, id + 1)} :
                    k \in lo .. FitRowCount - 1}

FitHistories == UNION {Histories(n, 0, 1) : n \in 0 .. MaxFitRows}

FitQueries ==
    [avg_glucose : {Num(1), Num(2)},
     glucose_sd  : {Num(0), Num(1)},
     difficulty  : {Num(2)}]

InitFit ==
    /\ entries \in FitHistories
    /\ clock = 0
    /\ req = NoRequest
    /\ resp = NoResponse

NextFit ==
    /\ resp = NoResponse
    /\ \E data \in FitQueries : PredictWith(data)

SpecFit == InitFit /\ [][NextFit]_vars

----------------------------------------------------------------------------
(* Scores that are not integers.  A Python float is an IEEE 754 double: a   *)
(* significand of 53 bits and a power of two.  A natural number is a        *)
(* sequence of bits, most significant first (<<>> is 0), and a double is    *)
(* [m, e], worth m * 2^e, with m of exactly 53 bits, or [<<>>, 0] for 0.0.  *)
(* float(), + and / round to the nearest double, ties to even.              *)

Precision == 53

RECURSIVE Bits(_)
Bits(n) == IF n = 0 THEN <<>> ELSE Bits(n \div 2) \o <<n % 2>>

Zeros(k) == [i \in 1 .. k |-> 0]

\* b without its leading zeros
Strip(b) ==
    IF \A i \in 1 .. Len(b) : b[i] = 0 THEN <<>>
    ELSE SubSeq(b, CHOOSE i \in 1 .. Len(b) : b[i] = 1 /\ \A j \in 1 .. i - 1 : b[j] = 0,
                Len(b))

Longest(a, b) == IF Len(a) < Len(b) THEN Len(b) ELSE Len(a)

Middle(lo, hi) == (lo + hi) \div 2

AddHigh(s, left) == [s |-> left.s \o s, c |-> left.c]

\* the bits lo .. hi of a + b + carry and the carry out of them (c), a and b
\* of one length: the low half first, its carry into the high half
RECURSIVE AddRange(_, _, _, _, _)
AddLow(a, b, lo, hi, right) ==
    IF right.c = 1 THEN AddHigh(right.s, AddRange(a, b, lo, hi, 1))
    ELSE AddHigh(right.s, AddRange(a, b, lo, hi, 0))

AddRange(a, b, lo, hi, carry) ==
    IF lo = hi
    THEN [s |-> <<(a[lo] + b[lo] + carry) % 2>>, c |-> (a[lo] + b[lo] + carry) \div 2]
    ELSE AddLow(a, b, lo, Middle(lo, hi),
                AddRange(a, b, Middle(lo, hi) + 1, hi, carry))

WithCarry(sum) == IF sum.c = 1 THEN <<1>> \o sum.s ELSE sum.s

AddAligned(a, b, k) ==
    WithCarry(AddRange(Zeros(k - Len(a)) \o a, Zeros(k - Len(b)) \o b, 1, k, 0))

\* a + b, neither empty
BitsAdd(a, b) == AddAligned(a, b, Longest(a, b))

DivLow(q, right) == [q |-> q \o right.q, r |-> right.r]

\* long division of the bits lo .. hi by n, r the remainder so far: the high
\* half first, its remainder into the low half
RECURSIVE DivRange(_, _, _, _, _)
DivHigh(b, n, lo, hi, left) == DivLow(left.q, DivRange(b, n, lo, hi, left.r))

DivRange(b, n, lo, hi, r) ==
    IF lo = hi
    THEN [q |-> <<(2 * r + b[lo]) \div n>>, r |-> (2 * r + b[lo]) % n]
    ELSE DivHigh(b, n, Middle(lo, hi) + 1, hi,
                 DivRange(b, n, lo, Middle(lo, hi), r))

Divide(b, n) == DivRange(b, n, 1, Len(b), 0)

AnyOne(b, from) == \E i \in from .. Len(b) : b[i] = 1

\* the 53 bits kept plus one: a carry out of them leaves 1 and 52 zeros
Increment(keep, e) ==
    IF \A i \in 1 .. Len(keep) : keep[i] = 1
    THEN [m |-> <<1>> \o Zeros(Precision - 1), e |-> e + 1]
    ELSE [m |-> BitsAdd(keep, <<1>>), e |-> e]

\* the double nearest to b * 2^e, b without leading zeros; sticky says a
\* positive part below the last bit of b was dropped
RoundBits(b, sticky, e) ==
    IF b = <<>> THEN [m |-> <<>>, e |-> 0]
    ELSE IF Len(b) <= Precision
    THEN [m |-> b \o Zeros(Precision - Len(b)), e |-> e - (Precision - Len(b))]
    ELSE IF b[Precision + 1] = 1
            /\ (sticky \/ AnyOne(b, Precision + 2) \/ b[Precision] = 1)
    THEN Increment(SubSeq(b, 1, Precision), e + Len(b) - Precision)
    ELSE [m |-> SubSeq(b, 1, Precision), e |-> e + Len(b) - Precision]

RoundQuotient(d, e) == RoundBits(Strip(d.q), d.r # 0, e)

\* float() of the JSON number p / q, p >= 0 and q > 0 small
float_of(p, q) ==
    RoundQuotient(Divide(Bits(p) \o Zeros(2 * Precision), q), 0 - 2 * Precision)

LeastExponent(x, y) == IF x.e < y.e THEN x.e ELSE y.e

AddAt(x, y, lo) ==
    RoundBits(Strip(BitsAdd(x.m \o Zeros(x.e - lo), y.m \o Zeros(y.e - lo))), FALSE, lo)

\* x + y of two doubles that are not negative
float_add(x, y) ==
    IF x.m = <<>> THEN y
    ELSE IF y.m = <<>> THEN x
    ELSE AddAt(x, y, LeastExponent(x, y))

\* x / n of a double by a count
float_div(x, n) ==
    IF x.m = <<>> THEN x
    ELSE RoundQuotient(Divide(x.m \o Zeros(Precision), n), x.e - Precision)

\* np.sum of the first k of y, added in order
RECURSIVE np_sum(_, _)
np_sum(y, k) ==
    IF k = 0 THEN float_of(0, 1) ELSE float_add(np_sum(y, k - 1), y[k])

np_mean(y) == float_div(np_sum(y, Len(y)), Len(y))

\* ss_tot > 0: a difference of two doubles is 0.0 only when they are equal,
\* and the squares of the differences of scores neither underflow nor cancel
ss_tot_positive(y) == \E i \in 1 .. Len(y) : y[i] # np_mean(y)

\* whether model["r2"] stays None
r2_is_none(y) == Len(y) < MinRegressionRows \/ ~ss_tot_positive(y)

----------------------------------------------------------------------------
(* The r2 of the predictor over scores with a fraction: the table holds a   *)
(* history whose scores are the doubles of decimal numbers, and one predict *)
(* request with a valid body is served against it.                          *)

MaxFloatRows == 4

\* the scores 0.1, 0.3, 0.5, 0.7 and 1.0, as numerator and denominator
Decimals == {<<1, 10>>, <<3, 10>>, <<1, 2>>, <<7, 10>>, <<1, 1>>}

FloatRow(dec, id) ==
    [id          |-> id,
     created_at  |-> now_iso(0),
     avg_glucose |-> id,
     glucose_sd  |-> id % 2,
     difficulty  |-> 1 + (id % 3),
     score       |-> float_of(dec[1], dec[2])]

RECURSIVE FloatHistoriesOf(_, _)
FloatHistoriesOf(n, id) ==
    IF n = 0 THEN {<<>>}
    ELSE {<<FloatRow(dec, id)>> \o h :
              dec \in Decimals, h \in FloatHistoriesOf(n - 1, id + 1)}

FloatHistories == UNION {FloatHistoriesOf(n, 1) : n \in 1 .. MaxFloatRows}

RECURSIVE FloatTarget(_)
FloatTarget(rows) ==
    IF rows = <<>> THEN <<>> ELSE <<Head(rows).score>> \o FloatTarget(Tail(rows))

\* POST /api/predict, the part of the answer that says whether r2 is null
predict_r2(data, table) ==
    [op |-> "predict",
     status |-> IF DOMAIN validate_predict(data).errors = {} THEN 200 ELSE 400,
     n_training_rows |-> n_training_rows(fetch_entries(table)),
     r2_is_none |-> r2_is_none(FloatTarget(fetch_entries(table)))]

InitFloat ==
    /\ entries \in FloatHistories
    /\ clock = 0
    /\ req = NoRequest
    /\ resp = NoResponse

FloatQueries ==
    [avg_glucose : {Num(1), Num(2)}, glucose_sd : {Num(0)}, difficulty : {Num(1)}]

PredictFloat ==
    /\ resp = NoResponse
    /\ \E data \in FloatQueries :
          /\ req' = [op |-> "predict", data |-> data]
          /\ resp' = predict_r2(data, entries)
    /\ UNCHANGED <<entries, clock>>

SpecFloat == InitFloat /\ [][PredictFloat]_vars

----------------------------------------------------------------------------
(* Properties of the service (Spec). *)

PredictOk == resp.op = "predict" /\ resp.status = 200

RECURSIVE ScoreTotal(_)
ScoreTotal(rows) == IF rows = <<>> THEN 0 ELSE Head(rows).score + ScoreTotal(Tail(rows))

\* C1: with no stored observation, predict answers predicted_score 0.0,
\* n_training_rows 0 and a notes list that is not empty, whatever the input.
C1_EmptyFallback ==
    (PredictOk /\ Len(entries) = 0) =>
        /\ resp.predicted_score = [k |-> "float", v |-> 0]
        /\ resp.model.n_training_rows = 0
        /\ resp.notes # <<>>

C1_Witness ==
    /\ PredictOk
    /\ Len(entries) = 0
    /\ req.data = [avg_glucose |-> Num(2), glucose_sd |-> Num(0), difficulty |-> Num(1)]

\* C2: with 1 or 2 stored observations, predicted_score is the mean of the
\* stored scores to the nearest hundredth, whatever the input's predictors:
\* every valid input gets the same predicted_score against the same table.
C2_MeanFallback ==
    (PredictOk /\ Len(entries) \in {1, 2}) =>
        /\ resp.predicted_score.k = "float"
        /\ 2 * Abs(Len(entries) * resp.predicted_score.v - 100 * ScoreTotal(entries))
              <= Len(entries)
        /\ \A data \in PredictRequests :
              predict(data, entries).status = 200 =>
                  predict(data, entries).predicted_score = resp.predicted_score

C2_Witness ==
    /\ PredictOk
    /\ Len(entries) = 2
    /\ entries[1].score # entries[2].score
    /\ req.data.avg_glucose = Num(1)

\* C3: GET /api/entries lists the observations in the order they were
\* appended.
C3_SnapshotInAppendOrder ==
    resp.op = "get_entries" => resp.rows = entries

\* C4: n_training_rows of a predict response is the number of stored
\* observations at the call, in each of the three regimes.
C4_TrainingRowsIsCount ==
    PredictOk => resp.model.n_training_rows = Len(entries)

C4_Witness == PredictOk /\ Len(entries) = 3 /\ resp.notes = <<>>

\* C5: every stored observation has avg_glucose > 0, glucose_sd >= 0,
\* 1 <= difficulty <= 10 and 0 <= score <= 100.
C5_StoredInRange ==
    \A i \in 1 .. Len(entries) :
        /\ entries[i].avg_glucose > 0
        /\ entries[i].glucose_sd >= 0
        /\ 1 <= entries[i].difficulty /\ entries[i].difficulty <= 10
        /\ 0 <= entries[i].score /\ entries[i].score <= 100

C5_Witness ==
    /\ Len(entries) = 2
    /\ resp.op = "add_entry" /\ resp.status = 400
    /\ req.data.score = Num(101)

\* a field of a request body that is missing, not a number, or out of range
Violated(field, value) ==
    \/ value.t # "num"
    \/ field = "avg_glucose" /\ ~(value.v > 0)
    \/ field = "glucose_sd"  /\ ~(value.v >= 0)
    \/ field = "difficulty"  /\ ~(1 <= value.v /\ value.v <= 10)
    \/ field = "score"       /\ ~(0 <= value.v /\ value.v <= 100)

ViolatedFields(data) == {f \in DOMAIN data : Violated(f, data[f])}

\* C6: a record or predict request with a field missing, not a number or out
\* of range is answered with the mapping of exactly the violated fields, and
\* neither the insert nor the predictor runs for it.
C6_ViolatedFieldsRejected ==
    (resp.op \in {"add_entry", "predict"} /\ ViolatedFields(req.data) # {}) =>
        /\ resp.status = 400
        /\ DOMAIN resp.errors = ViolatedFields(req.data)
        /\ resp.calls \subseteq {"validate_entry", "validate_predict"}

\* C7: the table changes only by a successful record, which appends one row
\* holding the submitted values under a new id, keeps the earlier rows as
\* they were and shows in the snapshot; every other request leaves the table
\* as it was.
C7_Step ==
    /\ entries' # entries =>
          /\ req'.op = "add_entry" /\ resp'.status = 201
          /\ Len(entries') = Len(entries) + 1
          /\ SubSeq(entries', 1, Len(entries)) = entries
          /\ \A f \in DOMAIN req'.data :
                req'.data[f] = Num(entries'[Len(entries')][f])
          /\ \A i \in 1 .. Len(entries) : entries[i].id # entries'[Len(entries')].id
          /\ \E i \in 1 .. Len(entries') :
                fetch_entries(entries')[i] = entries'[Len(entries')]
          /\ resp'.rows = <<entries'[Len(entries')]>>
    /\ (resp' # resp /\ resp'.op = "add_entry" /\ resp'.status = 201) =>
          entries' # entries

C7_StoreChangesOnlyByRecord == [][C7_Step]_vars

C7_Witness ==
    /\ resp.op = "add_entry" /\ resp.status = 201
    /\ Len(entries) = 2
    /\ entries[1].score # entries[2].score

----------------------------------------------------------------------------
(* Properties of the predictor (SpecFit). *)

Predictors(row) == <<row.avg_glucose, row.glucose_sd, row.difficulty>>

Det3(u, v, w) ==
    u[1] * (v[2] * w[3] - v[3] * w[2])
    - u[2] * (v[1] * w[3] - v[3] * w[1])
    + u[3] * (v[1] * w[2] - v[2] * w[1])

Minus3(u, v) == <<u[1] - v[1], u[2] - v[2], u[3] - v[3]>>

\* three rows whose predictor rows are linearly independent
HasIndependentRows(rows) ==
    \E i, j, k \in 1 .. Len(rows) :
        Det3(Predictors(rows[i]), Predictors(rows[j]), Predictors(rows[k])) # 0

\* the design matrix has rank 4: four rows with affinely independent predictors
FullColumnRank(rows) ==
    \E i, j, k, l \in 1 .. Len(rows) :
        Det3(Minus3(Predictors(rows[j]), Predictors(rows[i])),
             Minus3(Predictors(rows[k]), Predictors(rows[i])),
             Minus3(Predictors(rows[l]), Predictors(rows[i]))) # 0

AllScoresEqual(rows) == \A i \in 1 .. Len(rows) : rows[i].score = rows[1].score

CoefficientsOf(model) ==
    <<model.coefficients.intercept, model.coefficients.avg_glucose,
      model.coefficients.glucose_sd, model.coefficients.difficulty>>

NoCoefficientNull(model) ==
    \A f \in DOMAIN model.coefficients : model.coefficients[f] # Null

\* what predict answers to the same request with only the first k rows stored
AnswerWith(k) == predict(req.data, SubSeq(entries, 1, k))

\* C8 as stated: with exactly 3 stored observations whose predictor rows are
\* linearly independent, no coefficient is null and model.type differs from
\* the type the fallback regimes (fewer than 3 rows) return.
C8_TypeDiffersFromFallback ==
    (PredictOk /\ Len(entries) = 3 /\ HasIndependentRows(entries)) =>
        /\ NoCoefficientNull(resp.model)
        /\ \A k \in 0 .. 2 : resp.model.type # AnswerWith(k).model.type

\* C8 amended: with exactly 3 stored observations whose predictor rows are
\* linearly independent, no coefficient is null and model.type is
\* "multivariate_linear_regression", the value the fallback regimes return
\* too; the fitted answer differs from theirs by its empty notes list.
C8_FittedAtThreeRows ==
    (PredictOk /\ Len(entries) = 3 /\ HasIndependentRows(entries)) =>
        /\ NoCoefficientNull(resp.model)
        /\ resp.model.type = "multivariate_linear_regression"
        /\ resp.notes = <<>>
        /\ \A k \in 0 .. 2 :
              /\ AnswerWith(k).model.type = resp.model.type
              /\ AnswerWith(k).notes # <<>>

C8_Witness ==
    /\ PredictOk
    /\ Len(entries) = 3
    /\ HasIndependentRows(entries)
    /\ resp.model.coefficients.avg_glucose.n # 0

\* the residual and total sums of squares of the stored scores under the
\* coefficients of the response
RECURSIVE ResidualSquares(_, _)
ResidualSquares(rows, c) ==
    IF rows = <<>> THEN RInt(0)
    ELSE RAdd(RSq(RSub(RInt(Head(rows).score),
                       Evaluate(c, <<1>> \o Predictors(Head(rows))))),
              ResidualSquares(Tail(rows), c))

\* n^2 times the total sum of squares: the sum of (n * score - sum)^2, sum the score total
RECURSIVE ScaledTotalSquares(_, _, _)
ScaledTotalSquares(rows, n, sum) ==
    IF rows = <<>> THEN 0
    ELSE (n * Head(rows).score - sum) * (n * Head(rows).score - sum)
         + ScaledTotalSquares(Tail(rows), n, sum)

TotalSquares(rows) ==
    Rat(ScaledTotalSquares(rows, Len(rows), ScoreTotal(rows)), Len(rows) * Len(rows))

\* x is v ten-thousandths to within half a ten-thousandth
NearestTenThousandth(v, x) == 2 * Abs(10000 * x.n - v * x.d) <= x.d

R2Matches(r2, rss, tss) ==
    IF tss.n = 0 THEN r2 = Null
    ELSE r2.k = "float" /\ NearestTenThousandth(r2.v, RSub(RInt(1), RDiv(rss, tss)))

\* With scores that are integers (SpecFit, exact arithmetic): with 3 or more
\* stored observations r2 is null exactly when the stored scores are all
\* equal, and is otherwise 1 - RSS/TSS to 4 decimals; with fewer than 3
\* observations r2 is null.
R2OfIntegerScores ==
    PredictOk =>
        IF Len(entries) < 3 THEN resp.model.r2 = Null
        ELSE /\ (resp.model.r2 = Null) <=> AllScoresEqual(entries)
             /\ R2Matches(resp.model.r2,
                          ResidualSquares(entries, CoefficientsOf(resp.model)),
                          TotalSquares(entries))

\* C9 (SpecFloat): with 3 or more stored observations r2 is null exactly when
\* the stored scores are all identical (their total sum of squares around
\* the mean is zero); with fewer than 3 observations r2 is always null.
C9_NullR2ExactlyOnIdenticalScores ==
    PredictOk =>
        IF Len(entries) < 3 THEN resp.r2_is_none
        ELSE resp.r2_is_none <=> AllScoresEqual(entries)

\* three scores of 0.1: all identical, and r2 is not null
C9_Witness ==
    /\ PredictOk
    /\ Len(entries) = 3
    /\ \A i \in 1 .. 3 : entries[i].score = float_of(1, 10)
    /\ ~resp.r2_is_none

\* the affine functions c0 + c1 * avg_glucose + c2 * glucose_sd + c3 * difficulty
AffineFns == [c0 : -2 .. 2, c1 : -1 .. 1, c2 : -1 .. 1, c3 : -1 .. 1]

ValueAt(f, p) == f.c0 + f.c1 * p[1] + f.c2 * p[2] + f.c3 * p[3]

Generates(f, rows) ==
    \A i \in 1 .. Len(rows) : rows[i].score = ValueAt(f, Predictors(rows[i]))

QueryOf(data) == <<data.avg_glucose.v, data.glucose_sd.v, data.difficulty.v>>

One == [k |-> "float", v |-> 10000]

\* C10 as stated: when an affine function generates the stored scores and 3
\* rows or more are not degenerate, the prediction at the input is the
\* function's value there and r2 is 1.0, for every n >= 3.
C10_AffineReproduced ==
    (PredictOk /\ Len(entries) >= 3 /\ HasIndependentRows(entries)) =>
        \A f \in AffineFns :
            Generates(f, entries) =>
                /\ resp.predicted_score = [k |-> "float", v |-> 100 * ValueAt(f, QueryOf(req.data))]
                /\ resp.model.r2 = One

\* C10 amended: when an affine function generates the stored scores and 3
\* rows or more are not degenerate, r2 is 1.0 provided the scores are not all
\* identical, and the prediction at the input is the function's value there
\* provided the design matrix has full column rank 4 (which needs 4 rows).
C10_AffineReproducedAtFullRank ==
    (PredictOk /\ Len(entries) >= 3 /\ HasIndependentRows(entries)) =>
        \A f \in AffineFns :
            Generates(f, entries) =>
                /\ FullColumnRank(entries) =>
                      resp.predicted_score = [k |-> "float", v |-> 100 * ValueAt(f, QueryOf(req.data))]
                /\ ~AllScoresEqual(entries) => resp.model.r2 = One

C10_Witness ==
    /\ PredictOk
    /\ Len(entries) = 4
    /\ FullColumnRank(entries)
    /\ ~AllScoresEqual(entries)
    /\ \E f \in AffineFns : Generates(f, entries)
    /\ resp.predicted_score.v = 200

====
